---- MODULE Spec2Model ----
(***************************************************************************)
(* Model of server/src/config.rs: Config::parse and RawConfig::parse.     *)
(*                                                                         *)
(* A string is a sequence of one-character strings, so that parsing and    *)
(* case folding are computed character by character.  An Option<T> is a    *)
(* sequence of length 0 (None) or 1 (Some(x)).                             *)
(***************************************************************************)
EXTENDS Integers, Sequences, FiniteSets, TLC

(***************************************************************************)
(* Option<T>                                                               *)
(***************************************************************************)
None == <<>>
Some(x) == <<x>>
IsSome(o) == Len(o) = 1
Unwrap(o) == o[1]

\* Option::or (lines 226, 232, 238, 244): self if it is Some, else the other.
OptionOrSwapped(a, b) == IF IsSome(b) THEN b ELSE a
OptionOr(a, b) == IF IsSome(a) THEN a ELSE b

(***************************************************************************)
(* Characters and ASCII case folding (str::eq_ignore_ascii_case)           *)
(***************************************************************************)
Upper == << "A","B","C","D","E","F","G","H","I","J","K","L","M",
            "N","O","P","Q","R","S","T","U","V","W","X","Y","Z" >>
Lower == << "a","b","c","d","e","f","g","h","i","j","k","l","m",
            "n","o","p","q","r","s","t","u","v","w","x","y","z" >>

ToAsciiLowercase(c) ==
    IF \E i \in 1..Len(Upper) : Upper[i] = c
    THEN Lower[CHOOSE i \in 1..Len(Upper) : Upper[i] = c]
    ELSE c

eq_ignore_ascii_case(a, b) ==
    /\ Len(a) = Len(b)
    /\ \A i \in 1..Len(a) : ToAsciiLowercase(a[i]) = ToAsciiLowercase(b[i])

(***************************************************************************)
(* String literals of the program                                          *)
(***************************************************************************)
S_cubic    == <<"c","u","b","i","c">>
S_new_reno == <<"n","e","w","_","r","e","n","o">>
S_newreno  == <<"n","e","w","r","e","n","o">>
S_bbr      == <<"b","b","r">>

S_off   == <<"o","f","f">>
S_error == <<"e","r","r","o","r">>
S_warn  == <<"w","a","r","n">>
S_info  == <<"i","n","f","o">>
S_debug == <<"d","e","b","u","g">>
S_trace == <<"t","r","a","c","e">>

(***************************************************************************)
(* Results of the fallible conversions: [ok |-> TRUE, val |-> v] or        *)
(* [ok |-> FALSE].                                                         *)
(***************************************************************************)
OkVal(v) == [ok |-> TRUE, val |-> v]
Bad      == [ok |-> FALSE]

\* impl FromStr for CongestionController (lines 297-311)
CongestionFromStrNoNewreno(s) ==
    IF eq_ignore_ascii_case(s, S_cubic) THEN OkVal("Cubic")
    ELSE IF eq_ignore_ascii_case(s, S_new_reno) THEN OkVal("NewReno")
    ELSE IF eq_ignore_ascii_case(s, S_bbr) THEN OkVal("Bbr")
    ELSE Bad
CongestionFromStr(s) ==
    IF eq_ignore_ascii_case(s, S_cubic) THEN OkVal("Cubic")
    ELSE IF eq_ignore_ascii_case(s, S_new_reno) \/ eq_ignore_ascii_case(s, S_newreno)
         THEN OkVal("NewReno")
    ELSE IF eq_ignore_ascii_case(s, S_bbr) THEN OkVal("Bbr")
    ELSE Bad

\* LevelFilter::from_str of the log crate, as called at line 278: the six
\* names, compared ignoring ASCII case.
LevelFromStr(s) ==
    IF eq_ignore_ascii_case(s, S_off) THEN OkVal("Off")
    ELSE IF eq_ignore_ascii_case(s, S_error) THEN OkVal("Error")
    ELSE IF eq_ignore_ascii_case(s, S_warn) THEN OkVal("Warn")
    ELSE IF eq_ignore_ascii_case(s, S_info) THEN OkVal("Info")
    ELSE IF eq_ignore_ascii_case(s, S_debug) THEN OkVal("Debug")
    ELSE IF eq_ignore_ascii_case(s, S_trace) THEN OkVal("Trace")
    ELSE Bad

(***************************************************************************)
(* str::parse for the unsigned integer types (lines 216, 264, 268, 272).   *)
(* An empty string, a lone sign, or any non-digit after an optional        *)
(* leading "+" is an error; so is a value above the type's maximum.  The   *)
(* maximum is given by its decimal digits, because u32::MAX and u64::MAX   *)
(* exceed the integers TLC computes with; the value itself is computed     *)
(* only for strings that are in range.                                     *)
(***************************************************************************)
Digits == <<"0","1","2","3","4","5","6","7","8","9">>
IsDigit(c) == \E i \in 1..10 : Digits[i] = c
DigitVal(c) == (CHOOSE i \in 1..10 : Digits[i] = c) - 1

U16MaxDigits == <<"6","5","5","3","5">>
U32MaxDigits == <<"4","2","9","4","9","6","7","2","9","5">>
U64MaxDigits == <<"1","8","4","4","6","7","4","4","0","7",
                  "3","7","0","9","5","5","1","6","1","5">>

RECURSIVE StripZeros(_)
StripZeros(s) ==
    IF Len(s) > 0 /\ s[1] = "0" THEN StripZeros(Tail(s)) ELSE s

RECURSIVE DigitsGreater(_, _)
\* a > b for two digit strings of equal length
DigitsGreater(a, b) ==
    IF Len(a) = 0 THEN FALSE
    ELSE IF DigitVal(a[1]) # DigitVal(b[1]) THEN DigitVal(a[1]) > DigitVal(b[1])
    ELSE DigitsGreater(Tail(a), Tail(b))

Overflows(ds, maxDigits) ==
    LET z == StripZeros(ds) IN
    \/ Len(z) > Len(maxDigits)
    \/ Len(z) = Len(maxDigits) /\ DigitsGreater(z, maxDigits)

RECURSIVE DigitsValue(_, _)
DigitsValue(ds, acc) ==
    IF Len(ds) = 0 THEN acc
    ELSE DigitsValue(Tail(ds), acc * 10 + DigitVal(ds[1]))

ParseUInt(s, maxDigits) ==
    IF Len(s) = 0 THEN Bad
    ELSE LET ds == IF s[1] = "+" THEN Tail(s) ELSE s IN
         IF Len(ds) = 0 THEN Bad
         ELSE IF \E i \in 1..Len(ds) : ~IsDigit(ds[i]) THEN Bad
         ELSE IF Overflows(ds, maxDigits) THEN Bad
         ELSE OkVal(DigitsValue(ds, 0))

(***************************************************************************)
(* mod default (lines 323-349)                                             *)
(***************************************************************************)
default_congestion_controller == "Cubic"
default_max_idle_time == 15000
default_authentication_timeout == 1000
default_max_udp_packet_size == 1536
default_enable_ipv6 == FALSE
default_log_level == "Info"

\* impl Default for RawConfig (lines 111-126)
RawConfigDefault ==
    [ port                   |-> None,
      token                  |-> None,
      certificate            |-> None,
      private_key            |-> None,
      congestion_controller  |-> default_congestion_controller,
      max_idle_time          |-> default_max_idle_time,
      authentication_timeout |-> default_authentication_timeout,
      max_udp_packet_size    |-> default_max_udp_packet_size,
      enable_ipv6            |-> default_enable_ipv6,
      log_level              |-> default_log_level ]

(***************************************************************************)
(* std::time::Duration: whole seconds and a sub-second part in nanoseconds *)
(***************************************************************************)
DurationFromMillis(n) == [secs |-> n \div 1000, nanos |-> (n % 1000) * 1000000]
\* Duration::from_secs, the constructor called at line 64
DurationFromSecs(n) == [secs |-> n, nanos |-> 0]

(***************************************************************************)
(* ConfigError (lines 351-375) and the outcome of Config::parse            *)
(***************************************************************************)
Err(kind, detail) == [tag |-> "Err", kind |-> kind, detail |-> detail]
OkRaw(r)          == [tag |-> "Ok", raw |-> r]
OkConfig(c)       == [tag |-> "Ok", config |-> c]
Pending           == [tag |-> "Pending"]

S_port        == <<"p","o","r","t">>
S_token       == <<"t","o","k","e","n">>
S_certificate == <<"c","e","r","t","i","f","i","c","a","t","e">>
S_private_key == <<"p","r","i","v","a","t","e"," ","k","e","y">>

\* opts.usage(CARGO_PKG_NAME) and CARGO_PKG_VERSION (lines 205, 209): opaque texts
UsageText   == <<"usage">>
VersionText == <<"version">>

JoinFirstOnly(list, sep) == IF Len(list) = 0 THEN <<>> ELSE list[1]
RECURSIVE Join(_, _)
\* [String]::join (line 213)
Join(list, sep) ==
    IF Len(list) = 0 THEN <<>>
    ELSE IF Len(list) = 1 THEN list[1]
    ELSE list[1] \o sep \o Join(Tail(list), sep)

CommaSpace == <<",", " ">>

(***************************************************************************)
(* State.  matches, file, readable and tlsOk are the invocation's inputs:  *)
(* the result of getopts' parse of the arguments, the content of the       *)
(* config file, the set of paths that can be opened and loaded, and        *)
(* whether the loaded certificate and key make a valid TLS configuration.  *)
(* The others are the locals of RawConfig::parse and Config::parse.        *)
(***************************************************************************)
VARIABLES matches, file, readable, tlsOk,
          pc, port, token, certificate, private_key, raw,
          certs, priv_key, server_config, effects, result

inputs == <<matches, file, readable, tlsOk>>
cliLocals == <<port, token, certificate, private_key>>
asmLocals == <<certs, priv_key, server_config>>
vars == <<matches, file, readable, tlsOk, pc, port, token, certificate,
          private_key, raw, certs, priv_key, server_config, effects, result>>

\* `return Err(..)` and the `?` operator: the error becomes the outcome of
\* Config::parse (line 29 propagates RawConfig::parse's error unchanged).
Return(r) ==
    /\ result' = r
    /\ pc' = "done"

(***************************************************************************)
(* RawConfig::from_file (lines 284-288) with the serde attributes of       *)
(* RawConfig (lines 81-109): a file that cannot be opened is an Io error   *)
(* carrying the path; malformed JSON, an unknown field, an out-of-range    *)
(* port or a field whose string does not convert is a ParseConfigJson      *)
(* error; omitted optional fields take mod default's values.               *)
(***************************************************************************)
FieldOr(o, d) == IF IsSome(o) THEN Unwrap(o) ELSE d

\* deserialize_from_str (lines 313-321): the string's FromStr, its error
\* wrapped into the deserializer's error.
deserialize_from_str(o) ==
    IF IsSome(o) THEN CongestionFromStr(Unwrap(o))
    ELSE OkVal(default_congestion_controller)

from_file(path) ==
    IF path \notin readable THEN Err("Io", path)
    ELSE IF ~file.json_ok THEN Err("ParseConfigJson", <<>>)
    ELSE IF IsSome(file.port) /\ Unwrap(file.port) > 65535
         THEN Err("ParseConfigJson", <<>>)
    ELSE IF ~deserialize_from_str(file.congestion_controller).ok
         THEN Err("ParseConfigJson", <<>>)
    ELSE IF IsSome(file.log_level) /\ ~LevelFromStr(Unwrap(file.log_level)).ok
         THEN Err("ParseConfigJson", <<>>)
    ELSE OkRaw(
      [ port                   |-> file.port,
        token                  |-> file.token,
        certificate            |-> file.certificate,
        private_key            |-> file.private_key,
        congestion_controller  |-> deserialize_from_str(file.congestion_controller).val,
        max_idle_time          |-> FieldOr(file.max_idle_time, default_max_idle_time),
        authentication_timeout |-> FieldOr(file.authentication_timeout,
                                           default_authentication_timeout),
        max_udp_packet_size    |-> FieldOr(file.max_udp_packet_size,
                                           default_max_udp_packet_size),
        enable_ipv6            |-> FieldOr(file.enable_ipv6, default_enable_ipv6),
        log_level              |-> IF IsSome(file.log_level)
                                   THEN LevelFromStr(Unwrap(file.log_level)).val
                                   ELSE default_log_level ])

(***************************************************************************)
(* The required fields with a config file (lines 224-248): the CLI value,  *)
(* or else the file's, or else MissingOption; a CLI port that does not     *)
(* parse is a ParseInt error before the file's port is looked at.          *)
(***************************************************************************)
MergeRequiredNoKeyCheck(r, p, t, c, k) ==
    IF IsSome(p) /\ ~Unwrap(p).ok THEN Err("ParseInt", <<>>)
    ELSE LET pp == IF IsSome(p) THEN Some(Unwrap(p).val) ELSE None IN
    IF ~IsSome(OptionOr(pp, r.port)) THEN Err("MissingOption", S_port)
    ELSE IF ~IsSome(OptionOr(t, r.token)) THEN Err("MissingOption", S_token)
    ELSE IF ~IsSome(OptionOr(c, r.certificate))
         THEN Err("MissingOption", S_certificate)
    ELSE OkRaw([r EXCEPT !.port = OptionOr(pp, r.port),
                         !.token = OptionOr(t, r.token),
                         !.certificate = OptionOr(c, r.certificate),
                         !.private_key = OptionOr(k, r.private_key)])
MergeRequired(r, p, t, c, k) ==
    IF IsSome(p) /\ ~Unwrap(p).ok THEN Err("ParseInt", <<>>)
    ELSE LET pp == IF IsSome(p) THEN Some(Unwrap(p).val) ELSE None IN
    IF ~IsSome(OptionOr(pp, r.port)) THEN Err("MissingOption", S_port)
    ELSE IF ~IsSome(OptionOr(t, r.token)) THEN Err("MissingOption", S_token)
    ELSE IF ~IsSome(OptionOr(c, r.certificate))
         THEN Err("MissingOption", S_certificate)
    ELSE IF ~IsSome(OptionOr(k, r.private_key))
         THEN Err("MissingOption", S_private_key)
    ELSE OkRaw([r EXCEPT !.port = OptionOr(pp, r.port),
                         !.token = OptionOr(t, r.token),
                         !.certificate = OptionOr(c, r.certificate),
                         !.private_key = OptionOr(k, r.private_key)])

(***************************************************************************)
(* The required fields without a config file (lines 250-256): each must    *)
(* come from the CLI, checked in the order of the struct expression.       *)
(***************************************************************************)
RequiredFromCliNoCertCheck(p, t, c, k) ==
    IF ~IsSome(p) THEN Err("MissingOption", S_port)
    ELSE IF ~Unwrap(p).ok THEN Err("ParseInt", <<>>)
    ELSE IF ~IsSome(t) THEN Err("MissingOption", S_token)
    ELSE IF ~IsSome(k) THEN Err("MissingOption", S_private_key)
    ELSE OkRaw([RawConfigDefault EXCEPT !.port = Some(Unwrap(p).val),
                                        !.token = t,
                                        !.certificate = c,
                                        !.private_key = k])
RequiredFromCliTokenFirst(p, t, c, k) ==
    IF ~IsSome(t) THEN Err("MissingOption", S_token)
    ELSE IF ~IsSome(p) THEN Err("MissingOption", S_port)
    ELSE IF ~Unwrap(p).ok THEN Err("ParseInt", <<>>)
    ELSE IF ~IsSome(c) THEN Err("MissingOption", S_certificate)
    ELSE IF ~IsSome(k) THEN Err("MissingOption", S_private_key)
    ELSE OkRaw([RawConfigDefault EXCEPT !.port = Some(Unwrap(p).val),
                                        !.token = t,
                                        !.certificate = c,
                                        !.private_key = k])
RequiredFromCli(p, t, c, k) ==
    IF ~IsSome(p) THEN Err("MissingOption", S_port)
    ELSE IF ~Unwrap(p).ok THEN Err("ParseInt", <<>>)
    ELSE IF ~IsSome(t) THEN Err("MissingOption", S_token)
    ELSE IF ~IsSome(c) THEN Err("MissingOption", S_certificate)
    ELSE IF ~IsSome(k) THEN Err("MissingOption", S_private_key)
    ELSE OkRaw([RawConfigDefault EXCEPT !.port = Some(Unwrap(p).val),
                                        !.token = t,
                                        !.certificate = c,
                                        !.private_key = k])

(***************************************************************************)
(* Collaborators of Config::parse                                          *)
(***************************************************************************)
\* certificate::load_certificates / load_private_key (lines 33, 37): load
\* from a path, or fail with an I/O error.
load_certificates(path) ==
    IF path \in readable THEN OkVal(<<"certs", path>>) ELSE Bad
load_private_key(path) ==
    IF path \in readable THEN OkVal(<<"key", path>>) ELSE Bad

\* blake3::hash (line 63): an opaque one-way digest of the token's bytes
Blake3(bytes) == <<"blake3", bytes>>

\* the match of lines 43-53
CongestionFactory(cc) ==
    IF cc = "Bbr" THEN "BbrConfig"
    ELSE IF cc = "Cubic" THEN "CubicConfig"
    ELSE "NewRenoConfig"

\* `raw.enable_ipv6 |= matches.opt_present("enable-ipv6")` (line 275)
OrAssignOverwrite(a, b) == b
OrAssign(a, b) == a \/ b

(***************************************************************************)
(* RawConfig::parse, lines 202-282, one action per statement               *)
(***************************************************************************)
\* line 202: opts.parse(args.skip(1))?
ParseArgs ==
    /\ pc = "parse_args"
    /\ IF matches.fail
       THEN Return(Err("ParseArgument", <<>>))
       ELSE pc' = "help" /\ UNCHANGED result
    /\ UNCHANGED <<inputs, cliLocals, raw, asmLocals, effects>>

\* lines 204-206
CheckHelpAfterFree ==
    /\ pc = "help"
    /\ IF matches.free # <<>>
       THEN Return(Err("UnexpectedArguments", Join(matches.free, CommaSpace)))
       ELSE IF matches.help
       THEN Return(Err("Help", UsageText))
       ELSE pc' = "version" /\ UNCHANGED result
    /\ UNCHANGED <<inputs, cliLocals, raw, asmLocals, effects>>
CheckHelp ==
    /\ pc = "help"
    /\ IF matches.help
       THEN Return(Err("Help", UsageText))
       ELSE pc' = "version" /\ UNCHANGED result
    /\ UNCHANGED <<inputs, cliLocals, raw, asmLocals, effects>>

\* lines 208-210
CheckVersion ==
    /\ pc = "version"
    /\ IF matches.version
       THEN Return(Err("Version", VersionText))
       ELSE pc' = "free" /\ UNCHANGED result
    /\ UNCHANGED <<inputs, cliLocals, raw, asmLocals, effects>>

\* lines 212-214
CheckFree ==
    /\ pc = "free"
    /\ IF matches.free # <<>>
       THEN Return(Err("UnexpectedArguments", Join(matches.free, CommaSpace)))
       ELSE pc' = "cli_required" /\ UNCHANGED result
    /\ UNCHANGED <<inputs, cliLocals, raw, asmLocals, effects>>

\* lines 216-219: the CLI values of the required fields; the port is parsed
ReadCliRequired ==
    /\ pc = "cli_required"
    /\ port' = IF IsSome(matches.port)
               THEN Some(ParseUInt(Unwrap(matches.port), U16MaxDigits))
               ELSE None
    /\ token' = matches.token
    /\ certificate' = matches.certificate
    /\ private_key' = matches.private_key
    /\ pc' = "config"
    /\ UNCHANGED <<inputs, raw, asmLocals, effects, result>>

\* lines 221-222: with --config, read the file
FromFile ==
    /\ pc = "config"
    /\ IsSome(matches.config)
    /\ effects' = Append(effects, "open_config")
    /\ LET r == from_file(Unwrap(matches.config)) IN
       IF r.tag = "Err"
       THEN Return(r) /\ UNCHANGED raw
       ELSE raw' = Some(r.raw) /\ pc' = "merge_required" /\ UNCHANGED result
    /\ UNCHANGED <<inputs, cliLocals, asmLocals>>

\* lines 224-248
MergeRequiredFields ==
    /\ pc = "merge_required"
    /\ LET r == MergeRequired(Unwrap(raw), port, token, certificate, private_key) IN
       IF r.tag = "Err"
       THEN Return(r) /\ UNCHANGED raw
       ELSE raw' = Some(r.raw) /\ pc' = "congestion_controller" /\ UNCHANGED result
    /\ UNCHANGED <<inputs, cliLocals, asmLocals, effects>>

\* lines 249-257: without --config
NoFile ==
    /\ pc = "config"
    /\ ~IsSome(matches.config)
    /\ LET r == RequiredFromCli(port, token, certificate, private_key) IN
       IF r.tag = "Err"
       THEN Return(r) /\ UNCHANGED raw
       ELSE raw' = Some(r.raw) /\ pc' = "congestion_controller" /\ UNCHANGED result
    /\ UNCHANGED <<inputs, cliLocals, asmLocals, effects>>

\* lines 259-261
OptCongestionController ==
    /\ pc = "congestion_controller"
    /\ IF IsSome(matches.congestion_controller)
       THEN LET r == CongestionFromStr(Unwrap(matches.congestion_controller)) IN
            IF r.ok
            THEN /\ raw' = [raw EXCEPT ![1].congestion_controller = r.val]
                 /\ pc' = "max_idle_time" /\ UNCHANGED result
            ELSE Return(Err("InvalidCongestionController", <<>>)) /\ UNCHANGED raw
       ELSE pc' = "max_idle_time" /\ UNCHANGED <<raw, result>>
    /\ UNCHANGED <<inputs, cliLocals, asmLocals, effects>>

\* lines 263-265
OptMaxIdleTime ==
    /\ pc = "max_idle_time"
    /\ IF IsSome(matches.max_idle_time)
       THEN LET r == ParseUInt(Unwrap(matches.max_idle_time), U32MaxDigits) IN
            IF r.ok
            THEN /\ raw' = [raw EXCEPT ![1].max_idle_time = r.val]
                 /\ pc' = "authentication_timeout" /\ UNCHANGED result
            ELSE Return(Err("ParseInt", <<>>)) /\ UNCHANGED raw
       ELSE pc' = "authentication_timeout" /\ UNCHANGED <<raw, result>>
    /\ UNCHANGED <<inputs, cliLocals, asmLocals, effects>>

\* lines 267-269
OptAuthenticationTimeout ==
    /\ pc = "authentication_timeout"
    /\ IF IsSome(matches.authentication_timeout)
       THEN LET r == ParseUInt(Unwrap(matches.authentication_timeout), U64MaxDigits) IN
            IF r.ok
            THEN /\ raw' = [raw EXCEPT ![1].authentication_timeout = r.val]
                 /\ pc' = "max_udp_packet_size" /\ UNCHANGED result
            ELSE Return(Err("ParseInt", <<>>)) /\ UNCHANGED raw
       ELSE pc' = "max_udp_packet_size" /\ UNCHANGED <<raw, result>>
    /\ UNCHANGED <<inputs, cliLocals, asmLocals, effects>>

\* lines 271-273 (usize of a 64-bit target)
OptMaxUdpPacketSize ==
    /\ pc = "max_udp_packet_size"
    /\ IF IsSome(matches.max_udp_packet_size)
       THEN LET r == ParseUInt(Unwrap(matches.max_udp_packet_size), U64MaxDigits) IN
            IF r.ok
            THEN /\ raw' = [raw EXCEPT ![1].max_udp_packet_size = r.val]
                 /\ pc' = "enable_ipv6" /\ UNCHANGED result
            ELSE Return(Err("ParseInt", <<>>)) /\ UNCHANGED raw
       ELSE pc' = "enable_ipv6" /\ UNCHANGED <<raw, result>>
    /\ UNCHANGED <<inputs, cliLocals, asmLocals, effects>>

\* line 275
OptEnableIpv6 ==
    /\ pc = "enable_ipv6"
    /\ raw' = [raw EXCEPT ![1].enable_ipv6 = OrAssign(@, matches.enable_ipv6)]
    /\ pc' = "log_level"
    /\ UNCHANGED <<inputs, cliLocals, asmLocals, effects, result>>

\* lines 277-281, and line 29: RawConfig::parse returns raw to Config::parse
OptLogLevel ==
    /\ pc = "log_level"
    /\ IF IsSome(matches.log_level)
       THEN LET r == LevelFromStr(Unwrap(matches.log_level)) IN
            IF r.ok
            THEN /\ raw' = [raw EXCEPT ![1].log_level = r.val]
                 /\ pc' = "load_certificates" /\ UNCHANGED result
            ELSE Return(Err("ParseLogLevel", <<>>)) /\ UNCHANGED raw
       ELSE pc' = "load_certificates" /\ UNCHANGED <<raw, result>>
    /\ UNCHANGED <<inputs, cliLocals, asmLocals, effects>>

(***************************************************************************)
(* Config::parse, lines 31-78.  Option::unwrap of None panics.             *)
(***************************************************************************)
Panic == [tag |-> "Panic"]

\* lines 32-34
LoadCertificates ==
    /\ pc = "load_certificates"
    /\ IF ~IsSome(Unwrap(raw).certificate)
       THEN Return(Panic) /\ UNCHANGED <<certs, effects>>
       ELSE LET cert_path == Unwrap(Unwrap(raw).certificate)
                r == load_certificates(cert_path) IN
            /\ effects' = Append(effects, "load_certificates")
            /\ IF r.ok
               THEN certs' = Some(r.val) /\ pc' = "load_private_key" /\ UNCHANGED result
               ELSE Return(Err("Io", cert_path)) /\ UNCHANGED certs
    /\ UNCHANGED <<inputs, cliLocals, raw, priv_key, server_config>>

\* lines 36-38
LoadPrivateKey ==
    /\ pc = "load_private_key"
    /\ IF ~IsSome(Unwrap(raw).private_key)
       THEN Return(Panic) /\ UNCHANGED <<priv_key, effects>>
       ELSE LET priv_key_path == Unwrap(Unwrap(raw).private_key)
                r == load_private_key(priv_key_path) IN
            /\ effects' = Append(effects, "load_private_key")
            /\ IF r.ok
               THEN priv_key' = Some(r.val) /\ pc' = "server_config" /\ UNCHANGED result
               ELSE Return(Err("Io", priv_key_path)) /\ UNCHANGED priv_key
    /\ UNCHANGED <<inputs, cliLocals, raw, certs, server_config>>

\* lines 40-60
BuildServerConfig ==
    /\ pc = "server_config"
    /\ effects' = Append(effects, "with_single_cert")
    /\ IF ~tlsOk
       THEN Return(Err("Rustls", <<>>)) /\ UNCHANGED server_config
       ELSE /\ server_config' = Some(
                 [ certs |-> Unwrap(certs),
                   priv_key |-> Unwrap(priv_key),
                   congestion_controller_factory |->
                       CongestionFactory(Unwrap(raw).congestion_controller),
                   max_idle_timeout |-> Some(Unwrap(raw).max_idle_time) ])
            /\ pc' = "assemble"
            /\ UNCHANGED result
    /\ UNCHANGED <<inputs, cliLocals, raw, certs, priv_key>>

\* lines 62-77
Assemble ==
    /\ pc = "assemble"
    /\ IF ~IsSome(Unwrap(raw).port) \/ ~IsSome(Unwrap(raw).token)
       THEN Return(Panic)
       ELSE Return(OkConfig(
              [ server_config |-> Unwrap(server_config),
                port |-> Unwrap(Unwrap(raw).port),
                token_digest |-> Blake3(Unwrap(Unwrap(raw).token)),
                authentication_timeout |->
                    DurationFromSecs(Unwrap(raw).authentication_timeout),
                max_udp_packet_size |-> Unwrap(raw).max_udp_packet_size,
                enable_ipv6 |-> Unwrap(raw).enable_ipv6,
                log_level |-> Unwrap(raw).log_level ]))
    /\ UNCHANGED <<inputs, cliLocals, raw, asmLocals, effects>>

Next ==
    \/ ParseArgs
    \/ CheckHelp
    \/ CheckVersion
    \/ CheckFree
    \/ ReadCliRequired
    \/ FromFile
    \/ MergeRequiredFields
    \/ NoFile
    \/ OptCongestionController
    \/ OptMaxIdleTime
    \/ OptAuthenticationTimeout
    \/ OptMaxUdpPacketSize
    \/ OptEnableIpv6
    \/ OptLogLevel
    \/ LoadCertificates
    \/ LoadPrivateKey
    \/ BuildServerConfig
    \/ Assemble

(***************************************************************************)
(* The invocations explored.  Paths and tokens are short strings; the      *)
(* value a field has on the CLI differs from the one it has in the file.   *)
(***************************************************************************)
\* most free tokens in an argument list
MaxFree == 2
\* longest generated numeric option string
MaxNumLen == 2
\* most simultaneous deviations from the plain invocation
MaxFaults == 3

P_config == <<"f">>
CliToken == <<"t","1">>
FileToken == <<"t","2">>
CliCert == <<"c","1">>
FileCert == <<"c","2">>
CliKey == <<"k","1">>
FileKey == <<"k","2">>
Paths == {P_config, CliCert, FileCert, CliKey, FileKey}

FreeTokens == { <<"x">>, <<"y","z">> }
NumAlphabet == {"+", "0", "7", "a"}

RECURSIVE SeqsUpTo(_, _)
\* all sequences over S of length at most n
SeqsUpTo(S, n) ==
    IF n = 0 THEN { <<>> }
    ELSE LET P == SeqsUpTo(S, n - 1) IN
         P \cup { Append(q, x) : q \in {p \in P : Len(p) = n - 1}, x \in S }

RECURSIVE SubsetsUpTo(_, _)
\* all subsets of S with at most n elements
SubsetsUpTo(S, n) ==
    IF n = 0 THEN { {} }
    ELSE LET P == SubsetsUpTo(S, n - 1) IN
         P \cup { q \cup {x} : q \in P, x \in S }

Opt(S) == {None} \cup { Some(x) : x \in S }

S_80    == <<"8","0">>
S_65535 == <<"6","5","5","3","5">>
S_65536 == <<"6","5","5","3","6">>
S_2500  == <<"2","5","0","0">>
S_0     == <<"0">>
S_999   == <<"9","9","9">>
S_u32_over == <<"4","2","9","4","9","6","7","2","9","6">>
S_u64_over == <<"1","8","4","4","6","7","4","4","0","7",
                "3","7","0","9","5","5","1","6","1","6">>
S_junk  == <<"a">>

\* strings given to the u16, u32 and u64 conversions; those in range of the
\* type have values TLC can compute with
GenStrings  == SeqsUpTo(NumAlphabet, MaxNumLen)
PortStrings == GenStrings \cup {S_80, S_65535, S_65536}
U32Strings  == GenStrings \cup {S_999, S_u32_over}
U64Strings  == GenStrings \cup {S_2500, S_999, S_u64_over}

CcStrings ==
    { S_cubic, <<"C","U","B","I","C">>, <<"C","u","b","i","c">>,
      S_new_reno, <<"N","e","w","_","R","e","n","o">>,
      S_newreno, <<"N","E","W","R","E","N","O">>,
      S_bbr, <<"B","B","R">>, <<"b","B","r">>,
      <<"t","u","r","b","o">>, <<"T","U","R","B","O">>,
      <<"c","u","b","i">>, <<"n","e","w","-","r","e","n","o">>, <<>> }

LevelStrings ==
    { S_off, S_error, S_warn, S_info, S_debug, S_trace,
      <<"D","E","B","U","G">>, <<"W","a","r","n">>, <<"l","o","u","d">>, <<>> }

\* the plain invocation: the four required fields on the CLI, nothing else
BaseMatches ==
    [ fail |-> FALSE, help |-> FALSE, version |-> FALSE, free |-> <<>>,
      config |-> None,
      port |-> Some(S_80), token |-> Some(CliToken),
      certificate |-> Some(CliCert), private_key |-> Some(CliKey),
      congestion_controller |-> None, max_idle_time |-> None,
      authentication_timeout |-> None, max_udp_packet_size |-> None,
      enable_ipv6 |-> FALSE, log_level |-> None ]

\* a config file that parses and sets nothing
BaseFile ==
    [ json_ok |-> TRUE,
      port |-> None, token |-> None, certificate |-> None, private_key |-> None,
      congestion_controller |-> None, max_idle_time |-> None,
      authentication_timeout |-> None, max_udp_packet_size |-> None,
      enable_ipv6 |-> None, log_level |-> None ]

Invocation(m, f, r, t) == [m |-> m, f |-> f, r |-> r, t |-> t]

\* help, version, free tokens and argument errors, against missing required
\* fields and unreadable paths
EarlyInvocations ==
    { Invocation([BaseMatches EXCEPT !.fail = TRUE], BaseFile, Paths, TRUE) }
    \cup
    { Invocation([BaseMatches EXCEPT !.help = h, !.version = v, !.free = fr,
                                     !.config = cf, !.port = p, !.token = t,
                                     !.certificate = c],
                 BaseFile, r, TRUE) :
        h \in BOOLEAN, v \in BOOLEAN, fr \in SeqsUpTo(FreeTokens, MaxFree),
        cf \in Opt({P_config}), p \in Opt({S_80, S_junk}), t \in Opt({CliToken}),
        c \in Opt({CliCert}), r \in {Paths, {CliKey}} }

\* the required fields: present or absent on the CLI and in the file
RequiredInvocations ==
    { Invocation([BaseMatches EXCEPT !.config = cf, !.port = p, !.token = t,
                                     !.certificate = c, !.private_key = k],
                 [BaseFile EXCEPT !.json_ok = j, !.port = fp, !.token = ft,
                                  !.certificate = fc, !.private_key = fk],
                 r, TRUE) :
        cf \in Opt({P_config}), p \in Opt({S_80, S_65536}), t \in Opt({CliToken}),
        c \in Opt({CliCert}), k \in Opt({CliKey}),
        j \in BOOLEAN, fp \in Opt({443, 70000}), ft \in Opt({FileToken}),
        fc \in Opt({FileCert}), fk \in Opt({FileKey}),
        r \in {Paths, Paths \ {P_config}} }

\* the optional fields: present or absent on the CLI and in the file
OptionalInvocations ==
    { Invocation([BaseMatches EXCEPT !.config = cf,
                                     !.congestion_controller = cc,
                                     !.max_idle_time = mi,
                                     !.authentication_timeout = at,
                                     !.max_udp_packet_size = mu,
                                     !.enable_ipv6 = v6,
                                     !.log_level = ll],
                 [BaseFile EXCEPT !.congestion_controller = fcc,
                                  !.max_idle_time = fmi,
                                  !.authentication_timeout = fat,
                                  !.max_udp_packet_size = fmu,
                                  !.enable_ipv6 = fv6,
                                  !.log_level = fll],
                 Paths, TRUE) :
        cf \in Opt({P_config}), cc \in Opt({S_bbr}), mi \in Opt({S_999}),
        at \in Opt({S_2500}), mu \in Opt({S_80}), v6 \in BOOLEAN,
        ll \in Opt({S_debug}),
        fcc \in Opt({S_newreno}), fmi \in Opt({30000}), fat \in Opt({7}),
        fmu \in Opt({1200}), fv6 \in Opt(BOOLEAN), fll \in Opt({S_warn}) }

\* the strings the conversions are given
ValueInvocations ==
    { Invocation([BaseMatches EXCEPT !.config = cf, !.congestion_controller = cc],
                 [BaseFile EXCEPT !.congestion_controller = fcc], Paths, TRUE) :
        cf \in Opt({P_config}), cc \in Opt(CcStrings), fcc \in Opt(CcStrings) }
    \cup
    { Invocation([BaseMatches EXCEPT !.config = cf, !.log_level = ll],
                 [BaseFile EXCEPT !.log_level = fll], Paths, TRUE) :
        cf \in Opt({P_config}), ll \in Opt(LevelStrings), fll \in Opt(LevelStrings) }
    \cup
    { Invocation([BaseMatches EXCEPT !.port = Some(n)], BaseFile, Paths, TRUE) :
        n \in PortStrings }
    \cup
    { Invocation([BaseMatches EXCEPT !.max_idle_time = Some(n)],
                 BaseFile, Paths, TRUE) : n \in U32Strings }
    \cup
    { Invocation([BaseMatches EXCEPT !.authentication_timeout = Some(n)],
                 BaseFile, Paths, TRUE) : n \in U64Strings }
    \cup
    { Invocation([BaseMatches EXCEPT !.max_udp_packet_size = Some(n)],
                 BaseFile, Paths, TRUE) : n \in U64Strings }
    \cup
    { Invocation([BaseMatches EXCEPT !.config = Some(P_config)],
                 [BaseFile EXCEPT !.authentication_timeout = Some(n)],
                 Paths, TRUE) : n \in {0, 1, 999, 1000, 1001, 60000} }

\* several faults in one invocation
FaultNames ==
    { "arg_fail", "help", "version", "free", "with_config", "file_unreadable",
      "file_json", "file_cc", "port_missing", "port_bad", "token_missing",
      "cert_missing", "key_missing", "cc_bad", "idle_bad", "auth_bad",
      "udp_bad", "log_bad", "cert_unreadable", "key_unreadable", "tls_bad" }

FaultyInvocation(F) ==
    Invocation(
      [ fail |-> "arg_fail" \in F, help |-> "help" \in F,
        version |-> "version" \in F,
        free |-> IF "free" \in F THEN << <<"x">> >> ELSE <<>>,
        config |-> IF F \cap {"with_config", "file_unreadable", "file_json",
                             "file_cc"} # {}
                   THEN Some(P_config) ELSE None,
        port |-> IF "port_missing" \in F THEN None
                 ELSE IF "port_bad" \in F THEN Some(S_junk) ELSE Some(S_80),
        token |-> IF "token_missing" \in F THEN None ELSE Some(CliToken),
        certificate |-> IF "cert_missing" \in F THEN None ELSE Some(CliCert),
        private_key |-> IF "key_missing" \in F THEN None ELSE Some(CliKey),
        congestion_controller |->
            IF "cc_bad" \in F THEN Some(<<"t","u","r","b","o">>) ELSE None,
        max_idle_time |-> IF "idle_bad" \in F THEN Some(S_u32_over) ELSE None,
        authentication_timeout |-> IF "auth_bad" \in F THEN Some(S_junk) ELSE None,
        max_udp_packet_size |-> IF "udp_bad" \in F THEN Some(<<>>) ELSE None,
        enable_ipv6 |-> FALSE,
        log_level |-> IF "log_bad" \in F THEN Some(<<"l","o","u","d">>) ELSE None ],
      [BaseFile EXCEPT !.json_ok = "file_json" \notin F,
                       !.congestion_controller =
                           IF "file_cc" \in F THEN Some(<<"t","u","r","b","o">>)
                           ELSE None],
      ((Paths \ (IF "file_unreadable" \in F THEN {P_config} ELSE {}))
              \ (IF "cert_unreadable" \in F THEN {CliCert} ELSE {}))
              \ (IF "key_unreadable" \in F THEN {CliKey} ELSE {}),
      "tls_bad" \notin F)

FaultyInvocations == { FaultyInvocation(F) : F \in SubsetsUpTo(FaultNames, MaxFaults) }

Invocations ==
    EarlyInvocations \cup RequiredInvocations \cup OptionalInvocations
        \cup ValueInvocations \cup FaultyInvocations

Init ==
    /\ \E i \in Invocations :
          /\ matches = i.m
          /\ file = i.f
          /\ readable = i.r
          /\ tlsOk = i.t
    /\ pc = "parse_args"
    /\ port = None
    /\ token = None
    /\ certificate = None
    /\ private_key = None
    /\ raw = None
    /\ certs = None
    /\ priv_key = None
    /\ server_config = None
    /\ effects = <<>>
    /\ result = Pending

Spec == Init /\ [][Next]_vars

(***************************************************************************)
(* Properties                                                              *)
(***************************************************************************)
Done == pc = "done"
ConfigGiven == IsSome(matches.config)
\* RawConfig::parse has returned Ok(raw) to Config::parse (line 29)
RawReturned ==
    pc \in {"load_certificates", "load_private_key", "server_config", "assemble"}
R == Unwrap(raw)
\* the arguments parse and no help, version or free token ends the run early
PlainArgs ==
    /\ ~matches.fail
    /\ ~matches.help
    /\ ~matches.version
    /\ matches.free = <<>>

\* C1: with a config file and every check of RawConfig::parse passed, a field
\* given on the CLI has the CLI's (converted) value whatever the file holds;
\* a field not given on the CLI has the file's value, or the default when the
\* file omits an optional field.
C1_CliOverridesFile ==
    (pc = "load_certificates" /\ ConfigGiven) =>
        /\ R.port = IF IsSome(matches.port)
                    THEN Some(ParseUInt(Unwrap(matches.port), U16MaxDigits).val)
                    ELSE file.port
        /\ R.token = IF IsSome(matches.token) THEN matches.token ELSE file.token
        /\ R.certificate = IF IsSome(matches.certificate) THEN matches.certificate
                           ELSE file.certificate
        /\ R.private_key = IF IsSome(matches.private_key) THEN matches.private_key
                           ELSE file.private_key
        /\ R.congestion_controller =
              IF IsSome(matches.congestion_controller)
              THEN CongestionFromStr(Unwrap(matches.congestion_controller)).val
              ELSE IF IsSome(file.congestion_controller)
              THEN CongestionFromStr(Unwrap(file.congestion_controller)).val
              ELSE default_congestion_controller
        /\ R.max_idle_time =
              IF IsSome(matches.max_idle_time)
              THEN ParseUInt(Unwrap(matches.max_idle_time), U32MaxDigits).val
              ELSE IF IsSome(file.max_idle_time) THEN Unwrap(file.max_idle_time)
              ELSE default_max_idle_time
        /\ R.authentication_timeout =
              IF IsSome(matches.authentication_timeout)
              THEN ParseUInt(Unwrap(matches.authentication_timeout), U64MaxDigits).val
              ELSE IF IsSome(file.authentication_timeout)
              THEN Unwrap(file.authentication_timeout)
              ELSE default_authentication_timeout
        /\ R.max_udp_packet_size =
              IF IsSome(matches.max_udp_packet_size)
              THEN ParseUInt(Unwrap(matches.max_udp_packet_size), U64MaxDigits).val
              ELSE IF IsSome(file.max_udp_packet_size)
              THEN Unwrap(file.max_udp_packet_size)
              ELSE default_max_udp_packet_size
        /\ R.log_level =
              IF IsSome(matches.log_level)
              THEN LevelFromStr(Unwrap(matches.log_level)).val
              ELSE IF IsSome(file.log_level)
              THEN LevelFromStr(Unwrap(file.log_level)).val
              ELSE default_log_level

\* a token on the CLI and another in the file, the port only in the file
C1_Witness ==
    /\ pc = "load_certificates"
    /\ ConfigGiven
    /\ matches.token = Some(CliToken)
    /\ file.token = Some(FileToken)
    /\ R.token = Some(CliToken)
    /\ matches.port = None
    /\ R.port = Some(443)
    /\ R.max_idle_time = default_max_idle_time

(***************************************************************************)
(* C2                                                                      *)
(***************************************************************************)
FileHas(o) == ConfigGiven /\ IsSome(o)
FirstMissing ==
    IF ~IsSome(matches.port) /\ ~FileHas(file.port) THEN Some(S_port)
    ELSE IF ~IsSome(matches.token) /\ ~FileHas(file.token) THEN Some(S_token)
    ELSE IF ~IsSome(matches.certificate) /\ ~FileHas(file.certificate)
         THEN Some(S_certificate)
    ELSE IF ~IsSome(matches.private_key) /\ ~FileHas(file.private_key)
         THEN Some(S_private_key)
    ELSE None

\* the config file, if one is given, opens and parses
FileLoads ==
    ConfigGiven =>
        /\ Unwrap(matches.config) \in readable
        /\ file.json_ok
        /\ IsSome(file.port) => Unwrap(file.port) <= 65535
        /\ IsSome(file.congestion_controller) =>
              CongestionFromStr(Unwrap(file.congestion_controller)).ok
        /\ IsSome(file.log_level) => LevelFromStr(Unwrap(file.log_level)).ok

CliPortParses ==
    IsSome(matches.port) => ParseUInt(Unwrap(matches.port), U16MaxDigits).ok

\* C2 as stated: without help, version or free tokens, a required field given
\* neither on the CLI nor in the file ends in MissingOption naming the first
\* such field in the order port, token, certificate, private key.
C2_Original ==
    (Done /\ PlainArgs /\ IsSome(FirstMissing)) =>
        result = Err("MissingOption", Unwrap(FirstMissing))

\* C2 amended: the same, provided the config file (if given) opens and parses
\* and the CLI port (if given) parses as a u16; the name carried for the
\* private key is "private key".
C2_MissingOption ==
    (Done /\ PlainArgs /\ FileLoads /\ CliPortParses /\ IsSome(FirstMissing)) =>
        result = Err("MissingOption", Unwrap(FirstMissing))

\* token and private key both missing, with a file that supplies only the port
C2_Witness ==
    /\ Done
    /\ ConfigGiven
    /\ matches.port = None
    /\ IsSome(file.port)
    /\ matches.token = None
    /\ file.token = None
    /\ matches.private_key = None
    /\ file.private_key = None
    /\ result = Err("MissingOption", S_token)

(***************************************************************************)
(* C9                                                                      *)
(***************************************************************************)
\* C9: whenever RawConfig::parse has returned Ok, port, token, certificate and
\* private_key are all Some, so no unwrap of Config::parse meets a None.
C9_RequiredPopulated ==
    /\ RawReturned =>
          /\ IsSome(R.port)
          /\ IsSome(R.token)
          /\ IsSome(R.certificate)
          /\ IsSome(R.private_key)
    /\ result # Panic

\* the private key comes from the file alone
C9_Witness ==
    /\ pc = "load_certificates"
    /\ ConfigGiven
    /\ matches.private_key = None
    /\ R.private_key = Some(FileKey)
    /\ matches.port = None
    /\ IsSome(R.port)

(***************************************************************************)
(* C3, C8                                                                  *)
(***************************************************************************)
\* C3 as stated: all four required fields on the CLI, no config file and no
\* optional option give a Config with every documented default: Cubic, idle
\* time 15000 ms, authentication timeout 1000 ms, 1536 bytes, no IPv6, info.
C3_Defaults ==
    ( /\ Done
      /\ result.tag = "Ok"
      /\ ~ConfigGiven
      /\ matches.congestion_controller = None
      /\ matches.max_idle_time = None
      /\ matches.authentication_timeout = None
      /\ matches.max_udp_packet_size = None
      /\ ~matches.enable_ipv6
      /\ matches.log_level = None ) =>
        /\ result.config.server_config.congestion_controller_factory = "CubicConfig"
        /\ result.config.server_config.max_idle_timeout = Some(15000)
        /\ result.config.authentication_timeout = DurationFromMillis(1000)
        /\ result.config.max_udp_packet_size = 1536
        /\ result.config.enable_ipv6 = FALSE
        /\ result.config.log_level = "Info"

\* C8 as stated: the Config's authentication_timeout is a duration of exactly
\* as many milliseconds as the resolved authentication_timeout counts.
C8_TimeoutInMillis ==
    (Done /\ result.tag = "Ok") =>
        result.config.authentication_timeout =
            DurationFromMillis(R.authentication_timeout)

(***************************************************************************)
(* C4                                                                      *)
(***************************************************************************)
\* C4: when the arguments parse and the help (or version) flag is present,
\* the run never leaves the flag checks: it ends in Help (in Version when
\* only the version flag is present) with no required field looked at, no
\* config file opened and no certificate or key loaded.
C4_HelpVersionFirst ==
    (~matches.fail /\ (matches.help \/ matches.version)) =>
        /\ pc \in {"parse_args", "help", "version", "done"}
        /\ effects = <<>>
        /\ raw = None
        /\ port = None /\ token = None /\ certificate = None /\ private_key = None
        /\ Done => result = IF matches.help THEN Err("Help", UsageText)
                           ELSE Err("Version", VersionText)

\* both flags, no port, a free token and a certificate path that cannot be read
C4_Witness ==
    /\ Done
    /\ matches.help
    /\ matches.version
    /\ matches.port = None
    /\ matches.free # <<>>
    /\ IsSome(matches.certificate)
    /\ Unwrap(matches.certificate) \notin readable
    /\ result.kind = "Help"

(***************************************************************************)
(* C5                                                                      *)
(***************************************************************************)
\* t occurs in s as a run of consecutive characters
Occurs(t, s) ==
    \E i \in 1..(Len(s) - Len(t) + 1) : SubSeq(s, i, i + Len(t) - 1) = t

NamesEveryFreeToken ==
    /\ result.tag = "Err"
    /\ result.kind = "UnexpectedArguments"
    /\ \A i \in 1..Len(matches.free) : Occurs(matches.free[i], result.detail)

\* C5 as stated: any argument list that leaves a free token ends in
\* UnexpectedArguments naming every free token, and never in a Config.
C5_Original ==
    (Done /\ ~matches.fail /\ matches.free # <<>>) =>
        NamesEveryFreeToken

\* C5 amended: the same, provided neither the help nor the version flag is
\* present; with or without them, a free token never yields a Config.
C5_UnexpectedArguments ==
    (Done /\ ~matches.fail /\ matches.free # <<>>) =>
        /\ result.tag # "Ok"
        /\ (~matches.help /\ ~matches.version) => NamesEveryFreeToken

\* two different free tokens
C5_Witness ==
    /\ Done
    /\ Len(matches.free) = 2
    /\ matches.free[1] # matches.free[2]
    /\ result.tag = "Err"
    /\ result.kind = "UnexpectedArguments"

(***************************************************************************)
(* C6                                                                      *)
(***************************************************************************)
FileOrDefaultIpv6 ==
    IF ConfigGiven /\ IsSome(file.enable_ipv6) THEN Unwrap(file.enable_ipv6)
    ELSE FALSE

\* C6: once the optional fields are merged, enable_ipv6 is the file's value
\* (or the default) OR-ed with the presence of --enable-ipv6, in the
\* RawConfig and in the Config built from it.
C6_Ipv6Or ==
    /\ (pc = "log_level" \/ RawReturned) =>
          R.enable_ipv6 = (FileOrDefaultIpv6 \/ matches.enable_ipv6)
    /\ (Done /\ result.tag = "Ok") =>
          result.config.enable_ipv6 = (FileOrDefaultIpv6 \/ matches.enable_ipv6)

\* the file says true and the flag is absent
C6_Witness ==
    /\ Done
    /\ result.tag = "Ok"
    /\ ConfigGiven
    /\ file.enable_ipv6 = Some(TRUE)
    /\ ~matches.enable_ipv6
    /\ result.config.enable_ipv6 = TRUE

(***************************************************************************)
(* C7                                                                      *)
(***************************************************************************)
CubicSpellings   == { S_cubic, <<"C","U","B","I","C">>, <<"C","u","b","i","c">> }
NewRenoSpellings == { S_new_reno, <<"N","e","w","_","R","e","n","o">>,
                      S_newreno, <<"N","E","W","R","E","N","O">> }
BbrSpellings     == { S_bbr, <<"B","B","R">>, <<"b","B","r">> }
OtherNames       == ((CcStrings \ CubicSpellings) \ NewRenoSpellings) \ BbrSpellings

ControllerOf(s) ==
    IF s \in CubicSpellings THEN "Cubic"
    ELSE IF s \in NewRenoSpellings THEN "NewReno"
    ELSE "Bbr"

\* every check before the file is read passes
ReachesFile == PlainArgs /\ ConfigGiven /\ Unwrap(matches.config) \in readable
                  /\ file.json_ok
\* every check before --congestion-controller is converted passes
ReachesCliController ==
    PlainArgs /\ FileLoads /\ CliPortParses /\ ~IsSome(FirstMissing)

\* a recognised name, in any letter case, is accepted and selects its
\* controller
C7_Spellings ==
    /\ (pc = "max_idle_time" /\ IsSome(matches.congestion_controller)) =>
          /\ Unwrap(matches.congestion_controller) \notin OtherNames
          /\ R.congestion_controller = ControllerOf(Unwrap(matches.congestion_controller))
    /\ (pc = "merge_required" /\ IsSome(file.congestion_controller)) =>
          /\ Unwrap(file.congestion_controller) \notin OtherNames
          /\ R.congestion_controller = ControllerOf(Unwrap(file.congestion_controller))
    /\ ( /\ Done /\ result.tag = "Err"
         /\ IsSome(matches.congestion_controller)
         /\ Unwrap(matches.congestion_controller) \notin OtherNames ) =>
           result.kind # "InvalidCongestionController"
    /\ ( /\ Done /\ result.tag = "Err" /\ ReachesFile
         /\ IsSome(file.congestion_controller)
         /\ Unwrap(file.congestion_controller) \notin OtherNames
         /\ file.log_level = None /\ file.port = None ) =>
           result.kind # "ParseConfigJson"

C7_CliName ==
    ( /\ Done /\ ReachesCliController
      /\ IsSome(matches.congestion_controller)
      /\ Unwrap(matches.congestion_controller) \in OtherNames ) =>
        result = Err("InvalidCongestionController", <<>>)

\* C7 as stated: recognised names are accepted in any case, and any other
\* name, on the CLI or in the config file, ends in InvalidCongestionController
\* when no earlier check has failed.
C7_Original ==
    /\ C7_Spellings
    /\ C7_CliName
    /\ ( /\ Done /\ ReachesFile
         /\ IsSome(file.congestion_controller)
         /\ Unwrap(file.congestion_controller) \in OtherNames ) =>
           (result.tag = "Err" /\ result.kind = "InvalidCongestionController")

\* C7 amended: recognised names are accepted in any case; any other name
\* given with --congestion-controller ends in InvalidCongestionController,
\* and any other name in the config file ends in the config-file parse error
\* (ParseConfigJson), when no earlier check has failed.
C7_InvalidController ==
    /\ C7_Spellings
    /\ C7_CliName
    /\ ( /\ Done /\ ReachesFile
         /\ IsSome(file.congestion_controller)
         /\ Unwrap(file.congestion_controller) \in OtherNames ) =>
           (result.tag = "Err" /\ result.kind = "ParseConfigJson")

\* "TURBO" in the file, "NEWRENO" on the CLI
C7_Witness ==
    /\ Done
    /\ ConfigGiven
    /\ file.congestion_controller = Some(<<"T","U","R","B","O">>)
    /\ matches.congestion_controller = Some(<<"N","E","W","R","E","N","O">>)
    /\ result.tag = "Err"
    /\ result.kind = "ParseConfigJson"

(***************************************************************************)
(* C10                                                                     *)
(***************************************************************************)
\* the value each required field resolves to: the CLI's, else the file's
ResolvedCertificate ==
    IF IsSome(matches.certificate) THEN matches.certificate
    ELSE IF ConfigGiven THEN file.certificate ELSE None
ResolvedPrivateKey ==
    IF IsSome(matches.private_key) THEN matches.private_key
    ELSE IF ConfigGiven THEN file.private_key ELSE None
ResolvedToken ==
    IF IsSome(matches.token) THEN matches.token
    ELSE IF ConfigGiven THEN file.token ELSE None

Invalid(o, maxDigits) == IsSome(o) /\ ~ParseUInt(Unwrap(o), maxDigits).ok
Missing(cli, inFile) == ~IsSome(cli) /\ ~FileHas(inFile)

OpenedConfig == IF ConfigGiven THEN <<"open_config">> ELSE <<>>
Fault(kind, detail, eff) == Some([error |-> Err(kind, detail), effects |-> eff])

\* the earliest step of the processing order that fails on the invocation,
\* with the error it raises and the external calls made up to it
FirstFault ==
    IF matches.fail THEN Fault("ParseArgument", <<>>, <<>>)
    ELSE IF matches.help THEN Fault("Help", UsageText, <<>>)
    ELSE IF matches.version THEN Fault("Version", VersionText, <<>>)
    ELSE IF matches.free # <<>>
         THEN Fault("UnexpectedArguments", Join(matches.free, CommaSpace), <<>>)
    ELSE IF ConfigGiven /\ Unwrap(matches.config) \notin readable
         THEN Fault("Io", Unwrap(matches.config), OpenedConfig)
    ELSE IF ~FileLoads THEN Fault("ParseConfigJson", <<>>, OpenedConfig)
    ELSE IF Invalid(matches.port, U16MaxDigits) THEN Fault("ParseInt", <<>>, OpenedConfig)
    ELSE IF Missing(matches.port, file.port)
         THEN Fault("MissingOption", S_port, OpenedConfig)
    ELSE IF Missing(matches.token, file.token)
         THEN Fault("MissingOption", S_token, OpenedConfig)
    ELSE IF Missing(matches.certificate, file.certificate)
         THEN Fault("MissingOption", S_certificate, OpenedConfig)
    ELSE IF Missing(matches.private_key, file.private_key)
         THEN Fault("MissingOption", S_private_key, OpenedConfig)
    ELSE IF IsSome(matches.congestion_controller)
            /\ ~CongestionFromStr(Unwrap(matches.congestion_controller)).ok
         THEN Fault("InvalidCongestionController", <<>>, OpenedConfig)
    ELSE IF Invalid(matches.max_idle_time, U32MaxDigits)
         THEN Fault("ParseInt", <<>>, OpenedConfig)
    ELSE IF Invalid(matches.authentication_timeout, U64MaxDigits)
         THEN Fault("ParseInt", <<>>, OpenedConfig)
    ELSE IF Invalid(matches.max_udp_packet_size, U64MaxDigits)
         THEN Fault("ParseInt", <<>>, OpenedConfig)
    ELSE IF IsSome(matches.log_level) /\ ~LevelFromStr(Unwrap(matches.log_level)).ok
         THEN Fault("ParseLogLevel", <<>>, OpenedConfig)
    ELSE IF Unwrap(ResolvedCertificate) \notin readable
         THEN Fault("Io", Unwrap(ResolvedCertificate),
                    OpenedConfig \o <<"load_certificates">>)
    ELSE IF Unwrap(ResolvedPrivateKey) \notin readable
         THEN Fault("Io", Unwrap(ResolvedPrivateKey),
                    OpenedConfig \o <<"load_certificates", "load_private_key">>)
    ELSE IF ~tlsOk
         THEN Fault("Rustls", <<>>,
                    OpenedConfig \o <<"load_certificates", "load_private_key",
                                      "with_single_cert">>)
    ELSE None

CompleteConfig(c) ==
    /\ DOMAIN c = {"server_config", "port", "token_digest", "authentication_timeout",
                   "max_udp_packet_size", "enable_ipv6", "log_level"}
    /\ c.server_config.certs = <<"certs", Unwrap(ResolvedCertificate)>>
    /\ c.server_config.priv_key = <<"key", Unwrap(ResolvedPrivateKey)>>
    /\ c.server_config.congestion_controller_factory
          \in {"CubicConfig", "NewRenoConfig", "BbrConfig"}
    /\ IsSome(c.server_config.max_idle_timeout)
    /\ c.port \in 0..65535
    /\ c.token_digest = Blake3(Unwrap(ResolvedToken))
    /\ c.authentication_timeout.secs \in Nat
    /\ c.max_udp_packet_size \in Nat
    /\ c.enable_ipv6 \in BOOLEAN
    /\ c.log_level \in {"Off", "Error", "Warn", "Info", "Debug", "Trace"}

\* C10: no outcome exists before the run ends; it ends in a complete Config
\* when no step fails, and otherwise in the single error of the earliest
\* failing step of the processing order, no external call of a later step
\* having been made.
C10_FirstErrorWins ==
    /\ ~Done => result = Pending
    /\ Done =>
          IF IsSome(FirstFault)
          THEN /\ result = Unwrap(FirstFault).error
               /\ effects = Unwrap(FirstFault).effects
          ELSE /\ result.tag = "Ok"
               /\ CompleteConfig(result.config)
               /\ effects = OpenedConfig \o <<"load_certificates", "load_private_key",
                                              "with_single_cert">>

\* an unknown controller name, an unreadable certificate and unusable TLS
\* material in one invocation
C10_Witness ==
    /\ Done
    /\ IsSome(matches.congestion_controller)
    /\ ~CongestionFromStr(Unwrap(matches.congestion_controller)).ok
    /\ IsSome(ResolvedCertificate)
    /\ Unwrap(ResolvedCertificate) \notin readable
    /\ ~tlsOk
    /\ result = Err("InvalidCongestionController", <<>>)
    /\ effects = <<>>

\* C3 without its authentication-timeout conjunct, and the seconds the code
\* makes of the default
C3_OtherDefaults ==
    ( /\ Done
      /\ result.tag = "Ok"
      /\ ~ConfigGiven
      /\ matches.congestion_controller = None
      /\ matches.max_idle_time = None
      /\ matches.authentication_timeout = None
      /\ matches.max_udp_packet_size = None
      /\ ~matches.enable_ipv6
      /\ matches.log_level = None ) =>
        /\ result.config.server_config.congestion_controller_factory = "CubicConfig"
        /\ result.config.server_config.max_idle_timeout = Some(15000)
        /\ result.config.authentication_timeout = DurationFromSecs(1000)
        /\ result.config.max_udp_packet_size = 1536
        /\ result.config.enable_ipv6 = FALSE
        /\ result.config.log_level = "Info"

====
